---- MODULE Spec2Model ----
(***************************************************************************)
(* Model of pk-auto-push: the control loop (looping.rs), the run           *)
(* orchestrator (new_push.rs), the backoff scheduler (waiting.rs) and the  *)
(* git operation layer (git_interaction.rs).                               *)
(***************************************************************************)
EXTENDS Integers, Sequences, FiniteSets, TLC

(***************************************************************************)
(* Bounds of the model.                                                    *)
(***************************************************************************)
\* longest captured stderr text, in chunks
MaxStderrLen == 2
\* largest generic max_error_retry a DefaultWaiter is constructed with
MaxRetry == 1
\* cap of the otherwise unbounded consecutive_limits counter
MaxLimits == 2
\* most automatic commits a failed recovery reset may leave behind
MaxUnpushed == 1

(***************************************************************************)
(* Program constants.                                                      *)
(***************************************************************************)
\* main.rs: DefaultWaiter::new(7s, 5*60s, 30*60s, 10)
AfterSuccessSecs == 7
AfterErrorSecs == 300
AfterSkippedSecs == 1800
MainMaxErrorRetry == 10
\* new_push.rs: const TILL_PUSH
TILL_PUSH == 10

(***************************************************************************)
(* Text.  A captured stderr is a sequence of chunks of text, the two       *)
(* patterns of the rate-limit signature are chunks; str::contains is a     *)
(* search for a contiguous occurrence of the pattern.                      *)
(***************************************************************************)
Chunks == {"Connection refused", "ssh:"}

RECURSIVE TextsOfLen(_)
TextsOfLen(n) ==
    IF n = 0 THEN {<<>>}
    ELSE {Append(t, c) : t \in TextsOfLen(n - 1), c \in Chunks}

StderrTexts == UNION {TextsOfLen(n) : n \in 0..MaxStderrLen}

ConnectionRefused == <<"Connection refused">>
SshColon == <<"ssh:">>

Contains(text, pat) ==
    \E i \in 0..(Len(text) - Len(pat)) :
        \A j \in 1..Len(pat) : text[i + j] = pat[j]

(***************************************************************************)
(* Result values.                                                          *)
(***************************************************************************)
Ok(v) == [tag |-> "Ok", val |-> v]
Err(e) == [tag |-> "Err", err |-> e]
IsOk(r) == r.tag = "Ok"
Unit == "unit"

(***************************************************************************)
(* Git operation layer (git_interaction.rs).                               *)
(* What Command::output() gives: an io::Error when the process cannot be   *)
(* started, or the exit status with the captured stderr.                   *)
(***************************************************************************)
ExitStatuses == {0, 1}
LaunchFailure == [launched |-> FALSE]
Exited(status, stderr) == [launched |-> TRUE, status |-> status, stderr |-> stderr]
Outputs ==
    {LaunchFailure} \cup {Exited(s, t) : s \in ExitStatuses, t \in StderrTexts}

\* ExitStatus::success()
StatusSuccess(status) == status = 0

\* enum GitCommandError
GitCommandError_Exec == [kind |-> "Exec"]
GitCommandError_Other(status, stderr) ==
    [kind |-> "Other", status |-> status, stderr |-> stderr]

\* enum GitInteractionError
GitInteractionError_Exec(cmd) == [kind |-> "Exec", cmd |-> cmd]
GitInteractionError_LimitReached(stderr) == [kind |-> "LimitReached", stderr |-> stderr]

\* a server command that could not be started taken for a rate limit
run_git_server_command_launch_limited(output) ==
    IF ~output.launched
    THEN Err(GitInteractionError_LimitReached(<<>>))
    ELSE IF StatusSuccess(output.status)
    THEN Ok(Unit)
    ELSE IF Contains(output.stderr, ConnectionRefused) /\ Contains(output.stderr, SshColon)
         THEN Err(GitInteractionError_LimitReached(output.stderr))
         ELSE Err(GitInteractionError_Exec(
                    GitCommandError_Other(output.status, output.stderr)))

\* the signature test with `||` for `&&`
run_git_server_command_either(output) ==
    IF ~output.launched
    THEN Err(GitInteractionError_Exec(GitCommandError_Exec))
    ELSE IF StatusSuccess(output.status)
    THEN Ok(Unit)
    ELSE IF Contains(output.stderr, ConnectionRefused) \/ Contains(output.stderr, SshColon)
         THEN Err(GitInteractionError_LimitReached(output.stderr))
         ELSE Err(GitInteractionError_Exec(
                    GitCommandError_Other(output.status, output.stderr)))

run_git_server_command(output) ==
    IF ~output.launched
    THEN Err(GitInteractionError_Exec(GitCommandError_Exec))
    ELSE IF StatusSuccess(output.status)
    THEN Ok(Unit)
    ELSE IF Contains(output.stderr, ConnectionRefused) /\ Contains(output.stderr, SshColon)
         THEN Err(GitInteractionError_LimitReached(output.stderr))
         ELSE Err(GitInteractionError_Exec(
                    GitCommandError_Other(output.status, output.stderr)))

run_git_local_command(output) ==
    IF ~output.launched
    THEN Err(GitCommandError_Exec)
    ELSE IF StatusSuccess(output.status)
    THEN Ok(Unit)
    ELSE Err(GitCommandError_Other(output.status, output.stderr))

run_git_reset_files(output) == run_git_local_command(output)
run_git_reset_commit(output) == run_git_local_command(output)
run_git_add_all(output) == run_git_local_command(output)
run_git_commit(output) == run_git_local_command(output)
run_git_pull(output) == run_git_server_command(output)
run_git_push(output) == run_git_server_command(output)

(***************************************************************************)
(* Run orchestrator values (new_push.rs).                                  *)
(***************************************************************************)
\* enum NewRunError
NewRunError_LimitReached(stderr) == [variant |-> "LimitReached", stderr |-> stderr]
NewRunError_ResetFiles(cmd) == [variant |-> "ResetFiles", cmd |-> cmd]
NewRunError_Pull(cmd) == [variant |-> "Pull", cmd |-> cmd]
NewRunError_MakeChanges == [variant |-> "MakeChanges"]
NewRunError_AddAll(cmd) == [variant |-> "AddAll", cmd |-> cmd]
NewRunError_Commit(cmd) == [variant |-> "Commit", cmd |-> cmd]
NewRunError_Push(interaction) == [variant |-> "Push", interaction |-> interaction]

\* new_run_err(NewRunError::Pull), the only use of new_run_err
new_run_err_Pull(interaction) ==
    IF interaction.kind = "Exec"
    THEN NewRunError_Pull(interaction.cmd)
    ELSE NewRunError_LimitReached(interaction.stderr)

\* The sheet folder as make_changes finds it.
FileNames == {"a.cpp", "b.other", "c.txt"}
IoFailures == {"none", "read_dir", "read", "write"}
Folders ==
    {[exists |-> e, files |-> f, io |-> io] :
        e \in BOOLEAN, f \in SUBSET FileNames, io \in IoFailures}

\* std::io::Error
IoError == [kind |-> "io"]

EndsWith(name, ext) ==
    \/ ext = ".cpp" /\ name = "a.cpp"
    \/ ext = ".other" /\ name = "b.other"

make_changes(folder) ==
    IF ~folder.exists THEN Ok(FALSE)
    ELSE IF folder.io = "read_dir" THEN Err(IoError)
    ELSE IF Cardinality(folder.files) < 2 THEN Ok(FALSE)
    ELSE IF /\ \E n \in folder.files : EndsWith(n, ".cpp")
            /\ \E n \in folder.files : EndsWith(n, ".other")
         THEN IF folder.io \in {"read", "write"}
              THEN Err(IoError)
              ELSE Ok(TRUE)
         ELSE Ok(FALSE)

(***************************************************************************)
(* Run label (sheet_name.rs), by the number of whole weeks since start3.   *)
(***************************************************************************)
Weeks == {0, 8}
NoSheet == "none"
get_current_sheet_name(week) ==
    IF week > 7 THEN "panic"
    ELSE IF week = 7 THEN "sheet10"
    ELSE IF week = 6 THEN "sheet09"
    ELSE IF week = 5 THEN "sheet08"
    ELSE IF week = 4 THEN "sheet07"
    ELSE IF week = 3 THEN "sheet06"
    ELSE IF week = 2 THEN "sheet05"
    ELSE IF week = 1 THEN "sheet04"
    ELSE IF week = 0 THEN "sheet03"
    ELSE "sheet02"

(***************************************************************************)
(* Backoff scheduler (waiting.rs).  A call gives the waiter after the      *)
(* call, the durations handed to _wait (std::thread::sleep) and the value  *)
(* returned.  Durations are whole seconds.                                 *)
(***************************************************************************)
\* enum WaitingGaveUp
WaitingGaveUp_Errors(n) == [kind |-> "Errors", count |-> n]

DefaultWaiter_new(after_success, after_error, after_skipped, max_error_retry) ==
    [after_success |-> after_success,
     after_error |-> after_error,
     after_skipped |-> after_skipped,
     max_error_retry |-> max_error_retry,
     consecutive_errors |-> 0,
     consecutive_limits |-> 0]

Called(w, sleeps, ret) == [waiter |-> w, sleeps |-> sleeps, ret |-> ret]

\* success() resetting the error counter only
success_keeps_limits(w) ==
    Called([w EXCEPT !.consecutive_errors = 0], <<w.after_success>>, Ok(Unit))

success(w) ==
    Called([w EXCEPT !.consecutive_errors = 0, !.consecutive_limits = 0],
           <<w.after_success>>, Ok(Unit))

skipped(w) ==
    Called([w EXCEPT !.consecutive_errors = 0, !.consecutive_limits = 0],
           <<w.after_skipped>>, Ok(Unit))

\* limit_reached() starting the count of errors afresh
limit_reached_resets_errors(w) ==
    LET limits == w.consecutive_limits + 1
    IN  Called([w EXCEPT !.consecutive_limits = limits, !.consecutive_errors = 0],
               <<w.after_success * (limits + 1)>>, Ok(Unit))

\* limit_reached() scaling by the counter, not by the counter plus one
limit_reached_by_count(w) ==
    LET limits == w.consecutive_limits + 1
    IN  Called([w EXCEPT !.consecutive_limits = limits],
               <<w.after_success * limits>>, Ok(Unit))

limit_reached(w) ==
    LET limits == w.consecutive_limits + 1
    IN  Called([w EXCEPT !.consecutive_limits = limits],
               <<w.after_success * (limits + 1)>>, Ok(Unit))

\* error() giving up one call early (>= for >)
error_gives_up_early(w) ==
    LET errors == w.consecutive_errors + 1
        w2 == [w EXCEPT !.consecutive_errors = errors]
    IN  IF errors >= w.max_error_retry
        THEN Called(w2, <<>>, Err(WaitingGaveUp_Errors(errors)))
        ELSE Called(w2, <<w.after_error * (errors + 1)>>, Ok(Unit))

\* error() sleeping the base interval, not scaled by the counter
error_no_backoff(w) ==
    LET errors == w.consecutive_errors + 1
        w2 == [w EXCEPT !.consecutive_errors = errors]
    IN  IF errors > w.max_error_retry
        THEN Called(w2, <<>>, Err(WaitingGaveUp_Errors(errors)))
        ELSE Called(w2, <<w.after_error>>, Ok(Unit))

error(w) ==
    LET errors == w.consecutive_errors + 1
        w2 == [w EXCEPT !.consecutive_errors = errors]
    IN  IF errors > w.max_error_retry
        THEN Called(w2, <<>>, Err(WaitingGaveUp_Errors(errors)))
        ELSE Called(w2, <<w.after_error * (errors + 1)>>, Ok(Unit))

(***************************************************************************)
(* Control loop (looping.rs) and the steps of cause_new_run (new_push.rs). *)
(***************************************************************************)
VARIABLES
    pc,             \* position of the single thread
    maybe_diverged, \* update_loop: let mut maybe_diverged
    prepend_pull,   \* cause_new_run: parameter of the running call
    sheet,          \* update_loop: let sheet (run label of the iteration)
    res,            \* update_loop: let res (result of cause_new_run)
    wait_after,     \* update_loop: the DefaultWaiter
    ret,            \* value update_loop returned
    ops,            \* history: operations of the current iteration, in order
    last_git,       \* history: the last git command run, what it output and gave
    at_start,       \* history: waiter and flag when the iteration started
    outcome,        \* history: how the match classified the iteration
    prev,           \* history: the previous iteration
    err_calls,      \* history: error() calls since the last success()/skipped()
    err_waits,      \* history: their sleeps
    limit_waits,    \* history: sleeps of limit_reached() since the last success()/skipped()
    unpushed,       \* repository: automatic commits of the local history not on the server
    recovery_failed \* history: some `git reset HEAD~` has failed

vars == <<pc, maybe_diverged, prepend_pull, sheet, res, wait_after, ret,
          ops, last_git, outcome, at_start, prev, err_calls, err_waits,
          limit_waits, unpushed, recovery_failed>>

NoRes == [tag |-> "None"]
NoRet == [tag |-> "Running"]
\* enum looping::Error
Error_Waiting(gave_up) == [tag |-> "Err", variant |-> "Waiting", gave_up |-> gave_up]
Error_FileReset(cmd) == [tag |-> "Err", variant |-> "FileReset", cmd |-> cmd]

\* one executed operation: a git command or edit with its success, a
\* scheduler call, or a std::thread::sleep with its duration
Did(op, ok) == [op |-> op, ok |-> ok, val |-> ok, dur |-> 0]
Edited(r) == [op |-> "make_changes", ok |-> IsOk(r), val |-> IsOk(r) /\ r.val, dur |-> 0]
Slept(dur) == [op |-> "sleep", ok |-> TRUE, val |-> TRUE, dur |-> dur]
SleepsOf(durs) == [i \in 1..Len(durs) |-> Slept(durs[i])]

\* a git command: whether it talks to the server, what the process gave and
\* what the git operation layer made of it
NoGit == [kind |-> "none"]
Ran(kind, output, r) == [kind |-> kind, output |-> output, result |-> r]

\* how update_loop's match classifies a result of cause_new_run
OutcomeOf(r) ==
    IF r.tag = "Ok" THEN (IF r.val THEN "success" ELSE "skipped")
    ELSE IF r.err.variant = "LimitReached" THEN "limit"
    ELSE IF r.err.variant = "Push"
         THEN (IF r.err.interaction.kind = "Exec" THEN "push_failed" ELSE "push_limit")
    ELSE IF r.err.variant = "ResetFiles" THEN "reset_failed"
    ELSE "other"

RetryChoices == (0..MaxRetry) \cup {MainMaxErrorRetry}

Init ==
    /\ pc = "label"
    /\ maybe_diverged = FALSE
    /\ prepend_pull = FALSE
    /\ sheet = NoSheet
    /\ res = NoRes
    /\ \E m \in RetryChoices :
           wait_after = DefaultWaiter_new(AfterSuccessSecs, AfterErrorSecs,
                                          AfterSkippedSecs, m)
    /\ ret = NoRet
    /\ ops = <<>>
    /\ last_git = NoGit
    /\ outcome = "none"
    /\ at_start = [waiter |-> wait_after, maybe_diverged |-> FALSE, unpushed |-> 0]
    /\ prev = [outcome |-> "none", prepend_pull |-> FALSE, counted |-> FALSE]
    /\ err_calls = 0
    /\ err_waits = <<>>
    /\ limit_waits = <<>>
    /\ unpushed = 0
    /\ recovery_failed = FALSE

\* looping.rs 36-39: the label is computed and cause_new_run is called
\* with the current flag
StartIteration ==
    /\ pc = "label"
    /\ \E week \in Weeks :
        /\ get_current_sheet_name(week) # "panic"
        /\ sheet' = get_current_sheet_name(week)
    /\ prepend_pull' = maybe_diverged
    /\ pc' = "reset_files"
    /\ ops' = <<>>
    /\ last_git' = NoGit
    /\ outcome' = "running"
    /\ at_start' = [waiter |-> wait_after, maybe_diverged |-> maybe_diverged,
                    unpushed |-> unpushed]
    /\ prev' = [outcome |-> outcome, prepend_pull |-> prepend_pull,
                counted |-> /\ at_start.waiter.consecutive_errors > 0
                            /\ at_start.waiter.consecutive_limits > 0]
    /\ UNCHANGED <<maybe_diverged, res, wait_after, ret, err_calls, err_waits,
                   limit_waits, unpushed, recovery_failed>>

\* sheet_name.rs 17-19: no sheet is active, the label provider panics
LabelPanics ==
    /\ pc = "label"
    /\ \E week \in Weeks : get_current_sheet_name(week) = "panic"
    /\ pc' = "panicked"
    /\ UNCHANGED <<maybe_diverged, prepend_pull, sheet, res, wait_after, ret,
                   ops, last_git, outcome, at_start, prev, err_calls, err_waits,
                   limit_waits, unpushed, recovery_failed>>

\* what a git command does to the automatic commits the local history has
\* and the server has not: a commit adds one, a push uploads them all,
\* `git reset HEAD~` (git_interaction.rs 70-75) takes the last one away;
\* a command that failed changed nothing
RepoAfter(op, ok, n) ==
    IF ~ok THEN n
    ELSE IF op = "commit" THEN n + 1
    ELSE IF op = "push" THEN 0
    ELSE IF op = "reset_commit" THEN (IF n > 0 THEN n - 1 ELSE 0)
    ELSE n

\* frame of a step of cause_new_run
StepFrame ==
    UNCHANGED <<maybe_diverged, prepend_pull, sheet, wait_after, ret,
                outcome, at_start, prev, err_calls, err_waits,
                limit_waits, recovery_failed>>

\* a step of cause_new_run that ran `op` with result r: `?` returns
\* Err(wrapped) to update_loop's match, otherwise control goes on to `next`
Step(op, kind, output, r, wrapped, next) ==
    /\ ops' = Append(ops, Did(op, IsOk(r)))
    /\ last_git' = Ran(kind, output, r)
    /\ unpushed' = RepoAfter(op, IsOk(r), unpushed)
    /\ IF IsOk(r)
       THEN pc' = next /\ res' = res
       ELSE pc' = "match" /\ res' = Err(wrapped)
    /\ StepFrame

\* where cause_new_run goes after a successful reset (new_push.rs 103)
AfterReset(pull) == IF pull THEN "pull" ELSE "make_changes"

\* new_push.rs 101
ResetFiles ==
    /\ pc = "reset_files"
    /\ \E output \in Outputs :
        LET r == run_git_reset_files(output)
        IN  Step("reset_files", "local", output, r,
                 IF IsOk(r) THEN NoRes ELSE NewRunError_ResetFiles(r.err),
                 AfterReset(prepend_pull))

\* new_push.rs 104
Pull ==
    /\ pc = "pull"
    /\ \E output \in Outputs :
        LET r == run_git_pull(output)
        IN  Step("pull", "server", output, r,
                 IF IsOk(r) THEN NoRes ELSE new_run_err_Pull(r.err),
                 "make_changes")

\* cause_new_run going on to add/commit/push whatever the edit reported
AfterMakeChanges_ignores(r) ==
    IF ~IsOk(r) THEN [pc |-> "match", res |-> Err(NewRunError_MakeChanges)]
    ELSE [pc |-> "add_all", res |-> NoRes]

\* what cause_new_run does with the result of make_changes (new_push.rs 108-110)
AfterMakeChanges(r) ==
    IF ~IsOk(r) THEN [pc |-> "match", res |-> Err(NewRunError_MakeChanges)]
    ELSE IF ~r.val THEN [pc |-> "match", res |-> Ok(FALSE)]
    ELSE [pc |-> "add_all", res |-> NoRes]

\* new_push.rs 108-110
MakeChanges ==
    /\ pc = "make_changes"
    /\ \E folder \in Folders :
        LET r == make_changes(folder)
            to == AfterMakeChanges(r)
        IN  /\ ops' = Append(ops, Edited(r))
            /\ pc' = to.pc
            /\ res' = IF to.pc = "match" THEN to.res ELSE res
    /\ last_git' = last_git
    /\ unpushed' = unpushed
    /\ StepFrame

\* new_push.rs 112
AddAll ==
    /\ pc = "add_all"
    /\ \E output \in Outputs :
        LET r == run_git_add_all(output)
        IN  Step("add_all", "local", output, r,
                 IF IsOk(r) THEN NoRes ELSE NewRunError_AddAll(r.err),
                 "commit")

\* cause_new_run pushing right after the commit, pull or not
AfterCommit_never_sleeps(pull) == "push"

\* where cause_new_run goes after a successful commit (new_push.rs 116)
AfterCommit(pull) == IF pull THEN "till_push" ELSE "push"

\* new_push.rs 114
Commit ==
    /\ pc = "commit"
    /\ \E output \in Outputs :
        LET r == run_git_commit(output)
        IN  Step("commit", "local", output, r,
                 IF IsOk(r) THEN NoRes ELSE NewRunError_Commit(r.err),
                 AfterCommit(prepend_pull))

\* new_push.rs 116-120
SleepTillPush ==
    /\ pc = "till_push"
    /\ ops' = Append(ops, Slept(TILL_PUSH))
    /\ pc' = "push"
    /\ res' = res
    /\ last_git' = last_git
    /\ unpushed' = unpushed
    /\ StepFrame

\* the push wrapped through new_run_err, as the pull is
PushError_unwraps(interaction) ==
    IF interaction.kind = "Exec"
    THEN NewRunError_Push(interaction)
    ELSE NewRunError_LimitReached(interaction.stderr)

\* how cause_new_run wraps a failed push (new_push.rs 124)
PushError(interaction) == NewRunError_Push(interaction)

\* new_push.rs 124-127
Push ==
    /\ pc = "push"
    /\ \E output \in Outputs :
        LET r == run_git_push(output)
        IN  /\ ops' = Append(ops, Did("push", IsOk(r)))
            /\ last_git' = Ran("server", output, r)
            /\ unpushed' = RepoAfter("push", IsOk(r), unpushed)
            /\ res' = IF IsOk(r) THEN Ok(TRUE) ELSE Err(PushError(r.err))
    /\ pc' = "match"
    /\ StepFrame

\* frame and history of an arm of update_loop's match that called the
\* scheduler: `called` is what the call gave, `log` the operations of the arm
Notified(called, log) ==
    /\ wait_after' = called.waiter
    /\ ops' = ops \o log \o SleepsOf(called.sleeps)
    /\ outcome' = OutcomeOf(res)
    /\ res' = NoRes
    /\ UNCHANGED <<prepend_pull, sheet, at_start, prev>>

\* the Ok(true) arm clearing the flag after the successful push
MatchOkTrue_clears ==
    /\ pc = "match"
    /\ res = Ok(TRUE)
    /\ Notified(success(wait_after), <<Did("success", TRUE)>>)
    /\ err_calls' = 0
    /\ err_waits' = <<>>
    /\ limit_waits' = <<>>
    /\ UNCHANGED <<unpushed, recovery_failed>>
    /\ pc' = "label"
    /\ maybe_diverged' = FALSE
    /\ UNCHANGED <<ret, last_git>>

\* looping.rs 41-44
MatchOkTrue ==
    /\ pc = "match"
    /\ res = Ok(TRUE)
    /\ Notified(success(wait_after), <<Did("success", TRUE)>>)
    /\ err_calls' = 0
    /\ err_waits' = <<>>
    /\ limit_waits' = <<>>
    /\ UNCHANGED <<unpushed, recovery_failed>>
    /\ pc' = "label"
    /\ UNCHANGED <<maybe_diverged, ret, last_git>>

\* the Ok(false) arm notifying success() as the Ok(true) arm does
MatchOkFalse_as_success ==
    /\ pc = "match"
    /\ res = Ok(FALSE)
    /\ Notified(success(wait_after), <<Did("success", TRUE)>>)
    /\ err_calls' = 0
    /\ err_waits' = <<>>
    /\ limit_waits' = <<>>
    /\ UNCHANGED <<unpushed, recovery_failed>>
    /\ pc' = "label"
    /\ UNCHANGED <<maybe_diverged, ret, last_git>>

\* looping.rs 45-48
MatchOkFalse ==
    /\ pc = "match"
    /\ res = Ok(FALSE)
    /\ Notified(skipped(wait_after), <<Did("skipped", TRUE)>>)
    /\ err_calls' = 0
    /\ err_waits' = <<>>
    /\ limit_waits' = <<>>
    /\ UNCHANGED <<unpushed, recovery_failed>>
    /\ pc' = "label"
    /\ UNCHANGED <<maybe_diverged, ret, last_git>>

\* looping.rs 52-54
MatchLimitReached ==
    /\ pc = "match"
    /\ res.tag = "Err"
    /\ res.err.variant = "LimitReached"
    /\ wait_after.consecutive_limits < MaxLimits
    /\ Notified(limit_reached(wait_after), <<Did("limit_reached", TRUE)>>)
    /\ limit_waits' = limit_waits \o limit_reached(wait_after).sleeps
    /\ pc' = "label"
    /\ UNCHANGED <<maybe_diverged, ret, last_git, err_calls, err_waits,
                   unpushed, recovery_failed>>

\* the Push arm setting the flag on every push failure
DivergedAfterPush_always(push_err, flag) == TRUE

\* the Push arm forgetting to set the flag
DivergedAfterPush_keeps(push_err, flag) == flag

\* the flag after the Push arm (looping.rs 65-70)
DivergedAfterPush(push_err, flag) ==
    IF push_err.kind = "Exec" THEN TRUE ELSE flag

\* the Push arm attempting the recovery reset only when the push failed for
\* another reason than the rate limit
MatchPush_recovers_exec_only ==
    /\ pc = "match"
    /\ res.tag = "Err"
    /\ res.err.variant = "Push"
    /\ wait_after.consecutive_limits < MaxLimits
    /\ IF res.err.interaction.kind = "Exec"
       THEN \E output \in Outputs :
                LET reset == run_git_reset_commit(output)
                IN  /\ Notified(limit_reached(wait_after),
                                 <<Did("reset_commit", IsOk(reset)),
                                   Did("limit_reached", TRUE)>>)
                    /\ last_git' = Ran("local", output, reset)
                    /\ IsOk(reset) \/ unpushed <= MaxUnpushed
                    /\ unpushed' = RepoAfter("reset_commit", IsOk(reset), unpushed)
                    /\ recovery_failed' = (recovery_failed \/ ~IsOk(reset))
       ELSE /\ Notified(limit_reached(wait_after), <<Did("limit_reached", TRUE)>>)
            /\ unpushed <= MaxUnpushed
            /\ UNCHANGED <<last_git, unpushed, recovery_failed>>
    /\ limit_waits' = limit_waits \o limit_reached(wait_after).sleeps
    /\ maybe_diverged' = DivergedAfterPush(res.err.interaction, maybe_diverged)
    /\ pc' = "label"
    /\ UNCHANGED <<ret, err_calls, err_waits>>

\* the Push arm scheduling through error() as the catch-all arm does
MatchPush_uses_error ==
    /\ pc = "match"
    /\ res.tag = "Err"
    /\ res.err.variant = "Push"
    /\ wait_after.consecutive_limits < MaxLimits
    /\ LET called == error(wait_after)
       IN  /\ \E output \in Outputs :
                LET reset == run_git_reset_commit(output)
                IN  /\ Notified(called, <<Did("reset_commit", IsOk(reset)),
                                          Did("error", IsOk(called.ret))>>)
                    /\ last_git' = Ran("local", output, reset)
                    /\ IsOk(reset) \/ unpushed <= MaxUnpushed
                    /\ unpushed' = RepoAfter("reset_commit", IsOk(reset), unpushed)
                    /\ recovery_failed' = (recovery_failed \/ ~IsOk(reset))
           /\ err_waits' = err_waits \o called.sleeps
           /\ IF IsOk(called.ret)
              THEN pc' = "label" /\ ret' = ret
              ELSE pc' = "returned" /\ ret' = Error_Waiting(called.ret.err)
    /\ err_calls' = err_calls + 1
    /\ maybe_diverged' = DivergedAfterPush(res.err.interaction, maybe_diverged)
    /\ UNCHANGED limit_waits

\* the Push arm returning from update_loop when the recovery reset failed
MatchPush_escalates ==
    /\ pc = "match"
    /\ res.tag = "Err"
    /\ res.err.variant = "Push"
    /\ wait_after.consecutive_limits < MaxLimits
    /\ \E output \in Outputs :
        LET reset == run_git_reset_commit(output)
        IN  /\ last_git' = Ran("local", output, reset)
            /\ IsOk(reset) \/ unpushed <= MaxUnpushed
            /\ unpushed' = RepoAfter("reset_commit", IsOk(reset), unpushed)
            /\ recovery_failed' = (recovery_failed \/ ~IsOk(reset))
            /\ IF IsOk(reset)
               THEN /\ Notified(limit_reached(wait_after),
                                <<Did("reset_commit", TRUE), Did("limit_reached", TRUE)>>)
                    /\ limit_waits' = limit_waits \o limit_reached(wait_after).sleeps
                    /\ maybe_diverged' =
                            DivergedAfterPush(res.err.interaction, maybe_diverged)
                    /\ pc' = "label" /\ ret' = ret
               ELSE /\ ops' = Append(ops, Did("reset_commit", FALSE))
                    /\ outcome' = OutcomeOf(res)
                    /\ res' = NoRes
                    /\ ret' = Error_FileReset(reset.err)
                    /\ pc' = "returned"
                    /\ UNCHANGED <<prepend_pull, sheet, at_start, prev, wait_after,
                                   limit_waits, maybe_diverged>>
    /\ UNCHANGED <<err_calls, err_waits>>

\* looping.rs 55-72
MatchPush ==
    /\ pc = "match"
    /\ res.tag = "Err"
    /\ res.err.variant = "Push"
    /\ wait_after.consecutive_limits < MaxLimits
    /\ \E output \in Outputs :
        LET reset == run_git_reset_commit(output)
        IN  /\ Notified(limit_reached(wait_after),
                         <<Did("reset_commit", IsOk(reset)), Did("limit_reached", TRUE)>>)
            /\ last_git' = Ran("local", output, reset)
            /\ IsOk(reset) \/ unpushed <= MaxUnpushed
            /\ unpushed' = RepoAfter("reset_commit", IsOk(reset), unpushed)
            /\ recovery_failed' = (recovery_failed \/ ~IsOk(reset))
    /\ limit_waits' = limit_waits \o limit_reached(wait_after).sleeps
    /\ maybe_diverged' = DivergedAfterPush(res.err.interaction, maybe_diverged)
    /\ pc' = "label"
    /\ UNCHANGED <<ret, err_calls, err_waits>>

\* a failed initial reset handled like any other error
MatchResetFiles_retries ==
    /\ pc = "match"
    /\ res.tag = "Err"
    /\ res.err.variant = "ResetFiles"
    /\ LET called == error(wait_after)
       IN  /\ Notified(called, <<Did("error", IsOk(called.ret))>>)
           /\ err_waits' = err_waits \o called.sleeps
           /\ IF IsOk(called.ret)
              THEN pc' = "label" /\ ret' = ret
              ELSE pc' = "returned" /\ ret' = Error_Waiting(called.ret.err)
    /\ err_calls' = err_calls + 1
    /\ UNCHANGED <<maybe_diverged, last_git, limit_waits, unpushed, recovery_failed>>

\* looping.rs 73-78
MatchResetFiles ==
    /\ pc = "match"
    /\ res.tag = "Err"
    /\ res.err.variant = "ResetFiles"
    /\ ret' = Error_FileReset(res.err.cmd)
    /\ pc' = "returned"
    /\ outcome' = OutcomeOf(res)
    /\ res' = NoRes
    /\ UNCHANGED <<maybe_diverged, prepend_pull, sheet, wait_after, ops,
                   last_git, at_start, prev, err_calls, err_waits,
                   limit_waits, unpushed, recovery_failed>>

\* the catch-all arm dropping the result of error() (no `?`)
MatchOther_swallows ==
    /\ pc = "match"
    /\ res.tag = "Err"
    /\ res.err.variant \in {"Pull", "MakeChanges", "AddAll", "Commit"}
    /\ LET called == error(wait_after)
       IN  /\ Notified(called, <<Did("error", IsOk(called.ret))>>)
           /\ err_waits' = err_waits \o called.sleeps
    /\ pc' = "label"
    /\ err_calls' = err_calls + 1
    /\ UNCHANGED <<maybe_diverged, last_git, ret, limit_waits, unpushed,
                   recovery_failed>>

\* looping.rs 79-82: `?` returns the give-up through Error::from
MatchOther ==
    /\ pc = "match"
    /\ res.tag = "Err"
    /\ res.err.variant \in {"Pull", "MakeChanges", "AddAll", "Commit"}
    /\ LET called == error(wait_after)
       IN  /\ Notified(called, <<Did("error", IsOk(called.ret))>>)
           /\ err_waits' = err_waits \o called.sleeps
           /\ IF IsOk(called.ret)
              THEN pc' = "label" /\ ret' = ret
              ELSE pc' = "returned" /\ ret' = Error_Waiting(called.ret.err)
    /\ err_calls' = err_calls + 1
    /\ UNCHANGED <<maybe_diverged, last_git, limit_waits, unpushed, recovery_failed>>

Next ==
    \/ StartIteration
    \/ LabelPanics
    \/ ResetFiles
    \/ Pull
    \/ MakeChanges
    \/ AddAll
    \/ Commit
    \/ SleepTillPush
    \/ Push
    \/ MatchOkTrue
    \/ MatchOkFalse
    \/ MatchLimitReached
    \/ MatchPush
    \/ MatchResetFiles
    \/ MatchOther

Spec == Init /\ [][Next]_vars

TypeOK ==
    /\ pc \in {"label", "reset_files", "pull", "make_changes", "add_all", "commit",
               "till_push", "push", "match", "returned", "panicked"}
    /\ maybe_diverged \in BOOLEAN
    /\ prepend_pull \in BOOLEAN
    /\ wait_after.consecutive_errors \in 0..(wait_after.max_error_retry + 1)
    /\ wait_after.consecutive_limits \in 0..MaxLimits
    /\ Len(limit_waits) = wait_after.consecutive_limits
    /\ unpushed \in 0..(MaxUnpushed + 1)
    /\ recovery_failed \in BOOLEAN

(***************************************************************************)
(* Properties.                                                             *)
(***************************************************************************)
Last(seq) == seq[Len(seq)]
HasOp(name) == \E i \in DOMAIN ops : ops[i].op = name
GaveUp == pc = "returned" /\ ret.variant = "Waiting"
ResetFatal == pc = "returned" /\ ret.variant = "FileReset"

\* C1: update_loop returns only when the initial reset of an iteration failed
\* (Error::FileReset) or when error() gave up (Error::Waiting), which takes
\* max_error_retry + 1 error() calls since the last success()/skipped().
\* After every other iteration the loop is back at the top of the loop and
\* can start the next iteration.
C1_TerminalConditions ==
    /\ [](pc = "returned" =>
            \/ /\ ret.variant = "FileReset"
               /\ outcome = "reset_failed"
               /\ ops = <<Did("reset_files", FALSE)>>
            \/ /\ ret.variant = "Waiting"
               /\ outcome = "other"
               /\ Last(ops) = Did("error", FALSE)
               /\ err_calls = wait_after.max_error_retry + 1)
    /\ [](pc # "returned" => ret = NoRet)
    /\ [](pc = "label" => ENABLED StartIteration)
    /\ [][pc = "match" =>
            IF \/ OutcomeOf(res) = "reset_failed"
               \/ /\ OutcomeOf(res) = "other"
                  /\ err_calls >= wait_after.max_error_retry
            THEN pc' = "returned"
            ELSE pc' = "label"]_vars

\* C1 witness: max_error_retry errors are accumulated, a rate-limited
\* iteration followed them, and the loop is at the top of the loop again.
C1_Witness ==
    /\ pc = "label"
    /\ outcome = "limit"
    /\ wait_after.max_error_retry > 0
    /\ err_calls = wait_after.max_error_retry

\* C2: in a run of error() calls with no success()/skipped() in between,
\* calls 1..M return Ok after a sleep, the sleeps grow strictly, and call
\* M + 1 gives up without a sleep, reporting M + 1.
C2_ErrorBackoff ==
    LET M == wait_after.max_error_retry
    IN  /\ \A i, j \in DOMAIN err_waits : i < j => err_waits[i] < err_waits[j]
        /\ err_calls <= M + 1
        /\ err_calls <= M => Len(err_waits) = err_calls /\ ~GaveUp
        /\ (pc = "label" /\ outcome = "other") =>
               /\ Len(ops) >= 2
               /\ ops[Len(ops) - 1] = Did("error", TRUE)
               /\ Last(ops) = Slept(Last(err_waits))
        /\ err_calls = M + 1 =>
               /\ GaveUp
               /\ ret = Error_Waiting(WaitingGaveUp_Errors(M + 1))
               /\ Len(err_waits) = M
               /\ Last(ops) = Did("error", FALSE)
        /\ GaveUp => err_calls = M + 1

\* C2 witness: the waiter of main (10 retries) gave up.
C2_Witness ==
    /\ GaveUp
    /\ wait_after.max_error_retry = MainMaxErrorRetry
    /\ Len(err_waits) = MainMaxErrorRetry

FirstResetFailed == ops # <<>> /\ ops[1] = Did("reset_files", FALSE)

\* C3: when the reset at the start of an iteration fails, nothing else runs
\* in the iteration (no git command, no edit, no scheduler call, no sleep),
\* the counters and the flag stay as they were when the iteration started,
\* the loop returns Error::FileReset and takes no further step.
C3_ResetFailureIsFatal ==
    /\ [](FirstResetFailed =>
            /\ pc \in {"match", "returned"}
            /\ ops = <<Did("reset_files", FALSE)>>
            /\ wait_after = at_start.waiter
            /\ maybe_diverged = at_start.maybe_diverged
            /\ pc = "match" => OutcomeOf(res) = "reset_failed"
            /\ pc = "returned" => ret = Error_FileReset(last_git.result.err))
    /\ [][FirstResetFailed => pc = "match" /\ ResetFatal']_vars

\* C3 witness: the loop returned the reset error in an iteration that
\* started with the flag set and both counters above zero.
C3_Witness ==
    /\ ResetFatal
    /\ at_start.maybe_diverged
    /\ at_start.waiter.consecutive_limits > 0
    /\ at_start.waiter.consecutive_errors > 0

\* C4: after an iteration whose push failed for another reason than the
\* rate limit the flag is true; the next iteration is called with
\* prepend_pull, runs exactly one pull, right after its successful reset and
\* before the edit and the push, and the flag is still true after the pull.
C4_PullAfterFailedPush ==
    /\ (pc = "label" /\ outcome = "push_failed") => maybe_diverged
    /\ prev.outcome = "push_failed" =>
        /\ at_start.maybe_diverged
        /\ prepend_pull
        /\ maybe_diverged
        /\ (ops # <<>> /\ ops[1].ok) =>
               \/ pc = "pull" /\ Len(ops) = 1
               \/ Len(ops) >= 2 /\ ops[2].op = "pull"
        /\ \A i \in DOMAIN ops : ops[i].op = "pull" => i = 2
        /\ \A i \in DOMAIN ops : ops[i].op \in {"make_changes", "push"} => i > 2

\* C4 witness: the iteration after a failed push pulled and then pushed.
C4_Witness ==
    /\ prev.outcome = "push_failed"
    /\ pc = "label"
    /\ outcome = "success"
    /\ HasOp("pull")

\* the text has the chunk somewhere
Mentions(text, chunk) == \E i \in DOMAIN text : text[i] = chunk
\* the process exited non-zero with both patterns of the signature on stderr
FailedWithSignature(output) ==
    /\ output.launched
    /\ output.status # 0
    /\ Mentions(output.stderr, "Connection refused")
    /\ Mentions(output.stderr, "ssh:")
\* cause_new_run has just returned because its pull or its push failed
ServerStepFailed ==
    /\ pc = "match"
    /\ last_git.kind = "server"
    /\ ~IsOk(last_git.result)

\* C5 as claimed: a pull or push failing with the rate-limit signature makes
\* cause_new_run return NewRunError::LimitReached whichever step it was, and
\* Pull and Push are returned only for failures without the signature.
C5_LimitReachedFromAnyStep ==
    ServerStepFailed =>
        /\ FailedWithSignature(last_git.output) => res.err.variant = "LimitReached"
        /\ res.err.variant \in {"Pull", "Push"} => ~FailedWithSignature(last_git.output)

\* C5 amended: a pull failing with the signature makes cause_new_run return
\* NewRunError::LimitReached and Pull is returned only for pull failures
\* without it; every push failure is returned as NewRunError::Push, which
\* wraps GitInteractionError::LimitReached exactly when the push failed with
\* the signature.
C5_LimitUnwrappedForPullOnly ==
    ServerStepFailed =>
        LET sig == FailedWithSignature(last_git.output)
            text == last_git.output.stderr
        IN  /\ Last(ops).op \in {"pull", "push"}
            /\ Last(ops).op = "pull" =>
                   /\ sig => res = Err(NewRunError_LimitReached(text))
                   /\ ~sig => res.err.variant = "Pull"
            /\ Last(ops).op = "push" =>
                   /\ res.err.variant = "Push"
                   /\ sig => res.err.interaction = GitInteractionError_LimitReached(text)
                   /\ ~sig => res.err.interaction.kind = "Exec"

\* C5 witness: the push failed with the signature and cause_new_run returned.
C5_Witness ==
    /\ ServerStepFailed
    /\ Last(ops) = Did("push", FALSE)
    /\ FailedWithSignature(last_git.output)

\* C6 as claimed: the recovery reset runs only after a push that failed for
\* another reason than the rate limit; a rate-limited iteration (at the pull
\* or at the push) runs no recovery reset, calls limit_reached and leaves the
\* flag as it was.
C6_RecoveryOnlyWithoutRateLimit ==
    /\ HasOp("reset_commit") => outcome = "push_failed"
    /\ outcome \in {"limit", "push_limit"} =>
        /\ ~HasOp("reset_commit")
        /\ HasOp("limit_reached")
        /\ maybe_diverged = at_start.maybe_diverged

\* C6 amended: the recovery reset runs exactly when the push failed, rate
\* limited or not, once and right after the push; an iteration rate-limited at
\* the pull runs no recovery reset; a rate-limited iteration (pull or push)
\* calls limit_reached once and leaves the flag as it was.
C6_RecoveryOnEveryPushFailure ==
    /\ HasOp("reset_commit") <=> outcome \in {"push_failed", "push_limit"}
    /\ \A i \in DOMAIN ops : ops[i].op = "reset_commit" =>
           /\ i > 1
           /\ ops[i - 1] = Did("push", FALSE)
           /\ \A j \in DOMAIN ops : ops[j].op = "reset_commit" => j = i
    /\ outcome = "limit" => ~HasOp("reset_commit") /\ ~HasOp("push")
    /\ outcome \in {"limit", "push_limit"} =>
        /\ Len(ops) >= 2
        /\ ops[Len(ops) - 1] = Did("limit_reached", TRUE)
        /\ Last(ops) = Slept(limit_reached(at_start.waiter).sleeps[1])
        /\ wait_after = limit_reached(at_start.waiter).waiter
        /\ maybe_diverged = at_start.maybe_diverged

\* C6 witness: a rate-limited push was followed by the recovery reset and the
\* flag is still false.
C6_Witness ==
    /\ pc = "label"
    /\ outcome = "push_limit"
    /\ HasOp("reset_commit")
    /\ ~maybe_diverged

\* C7 as claimed: after an iteration that started with the flag true and
\* pushed successfully, the next iteration starts with the flag false, does
\* not pull and does not sleep 10 seconds before pushing.
C7_FlagClearedBySuccessfulPush ==
    (prev.outcome = "success" /\ prev.prepend_pull) =>
        /\ ~at_start.maybe_diverged
        /\ ~prepend_pull
        /\ ~HasOp("pull")
        /\ \A i \in DOMAIN ops : ops[i] # Slept(TILL_PUSH)

\* the waiter as constructed, with this run's retry maximum
FreshWaiter ==
    DefaultWaiter_new(AfterSuccessSecs, AfterErrorSecs, AfterSkippedSecs,
                      wait_after.max_error_retry)

\* C8: success() and skipped() leave both counters at zero, no step lowers
\* one counter without both being zero afterwards, and the first
\* limit_reached() or error() after a success()/skipped() does what the
\* first such call on a fresh waiter does (same sleep, same result).
C8_CountersResetTogether ==
    /\ [][(\/ wait_after'.consecutive_errors < wait_after.consecutive_errors
           \/ wait_after'.consecutive_limits < wait_after.consecutive_limits)
          => (/\ wait_after'.consecutive_errors = 0
              /\ wait_after'.consecutive_limits = 0)]_vars
    /\ []((pc = "label" /\ outcome \in {"success", "skipped"}) =>
            /\ wait_after.consecutive_errors = 0
            /\ wait_after.consecutive_limits = 0)
    /\ []((prev.outcome \in {"success", "skipped"}
           /\ outcome \in {"limit", "push_failed", "push_limit"}) =>
            /\ Last(ops) = Slept(limit_reached(FreshWaiter).sleeps[1])
            /\ wait_after = limit_reached(FreshWaiter).waiter)
    /\ []((prev.outcome \in {"success", "skipped"} /\ outcome = "other") =>
            /\ wait_after = error(FreshWaiter).waiter
            /\ IF IsOk(error(FreshWaiter).ret)
               THEN ~GaveUp /\ Last(ops) = Slept(error(FreshWaiter).sleeps[1])
               ELSE GaveUp /\ Last(ops) = Did("error", FALSE))

\* C8 witness: an iteration that started with both counters above zero
\* succeeded, and the next iteration was rate-limited.
C8_Witness ==
    /\ pc = "label"
    /\ prev.outcome = "success"
    /\ prev.counted
    /\ outcome = "limit"

\* the edit ran and reported that it changed nothing
NoChange ==
    \E i \in DOMAIN ops : ops[i].op = "make_changes" /\ ops[i].ok /\ ~ops[i].val

\* C9: when make_changes reports no change, cause_new_run returns Ok(false)
\* right after the reset (and the pull, when prepend_pull is set): no add,
\* commit, pre-push sleep or push runs in the iteration.
C9_NoChangeSkips ==
    NoChange =>
        /\ pc \in {"match", "label", "panicked"}
        /\ pc = "match" => res = Ok(FALSE) /\ Last(ops).op = "make_changes"
        /\ pc # "match" => outcome = "skipped"
        /\ ~HasOp("add_all") /\ ~HasOp("commit") /\ ~HasOp("push")
        /\ \A i \in DOMAIN ops : ops[i] # Slept(TILL_PUSH)
        /\ IF prepend_pull
           THEN /\ Len(ops) >= 3
                /\ SubSeq(ops, 1, 2) = <<Did("reset_files", TRUE), Did("pull", TRUE)>>
                /\ ops[3].op = "make_changes"
           ELSE /\ Len(ops) >= 2
                /\ ops[1] = Did("reset_files", TRUE)
                /\ ops[2].op = "make_changes"

\* C9 witness: the edit reported no change in an iteration that pulled.
C9_Witness ==
    /\ NoChange
    /\ prepend_pull
    /\ pc = "match"

\* C10: a zero exit gives success whatever the text, for local and server
\* commands; a non-zero exit of a server command with both patterns on
\* stderr gives the rate-limit failure; every other non-zero exit gives the
\* generic failure carrying the exit status and stderr.
C10_Classification ==
    (last_git.kind # "none" /\ last_git.output.launched) =>
        LET o == last_git.output
            generic == GitCommandError_Other(o.status, o.stderr)
            both == /\ Mentions(o.stderr, "Connection refused")
                    /\ Mentions(o.stderr, "ssh:")
        IN  IF o.status = 0 THEN last_git.result = Ok(Unit)
            ELSE IF last_git.kind = "server" /\ both
            THEN last_git.result = Err(GitInteractionError_LimitReached(o.stderr))
            ELSE IF last_git.kind = "server"
            THEN last_git.result = Err(GitInteractionError_Exec(generic))
            ELSE last_git.result = Err(generic)

\* C10 witness: a local command exited non-zero with both patterns on stderr.
C10_Witness ==
    /\ last_git.kind = "local"
    /\ FailedWithSignature(last_git.output)
    /\ last_git.result.tag = "Err"
    /\ last_git.result.err.kind = "Other"


SchedulerOps == {"success", "skipped", "limit_reached", "error"}
Count(name) == Cardinality({i \in DOMAIN ops : ops[i].op = name})
\* cause_new_run has just returned because a step failed that is neither
\* the initial reset nor the push, and not through the rate limit
OtherStepFailed ==
    /\ pc = "match"
    /\ ~Last(ops).ok
    /\ \/ Last(ops).op \in {"make_changes", "add_all", "commit"}
       \/ Last(ops).op = "pull" /\ ~FailedWithSignature(last_git.output)

\* C12: a failed pull (not rate-limited), edit, add or commit is matched by
\* the catch-all arm, which calls error() exactly once and no other
\* scheduler operation; when error() gives up the loop returns
\* Error::Waiting with the counter and takes no further step, otherwise the
\* loop is at the top again and can start the next iteration.
C12_OtherErrorsCallError ==
    /\ OtherStepFailed => OutcomeOf(res) = "other"
    /\ HasOp("error") <=> outcome = "other"
    /\ outcome = "other" =>
        LET i == CHOOSE k \in DOMAIN ops : ops[k].op = "error"
            errors == wait_after.consecutive_errors
        IN  /\ Count("error") = 1
            /\ \A j \in DOMAIN ops : ops[j].op \in SchedulerOps => j = i
            /\ i > 1
            /\ ~ops[i - 1].ok
            /\ ops[i - 1].op \in {"pull", "make_changes", "add_all", "commit"}
            /\ errors = at_start.waiter.consecutive_errors + 1
            /\ IF errors > wait_after.max_error_retry
               THEN /\ pc = "returned"
                    /\ ret = Error_Waiting(WaitingGaveUp_Errors(errors))
                    /\ ops[i] = Did("error", FALSE)
                    /\ i = Len(ops)
                    /\ ~ENABLED Next
               ELSE /\ pc \in {"label", "panicked"}
                    /\ ret = NoRet
                    /\ ops[i] = Did("error", TRUE)
                    /\ pc = "label" => ENABLED StartIteration

\* C12 witness: a failed commit made error() give up and the loop returned.
C12_Witness ==
    /\ GaveUp
    /\ \E i \in DOMAIN ops : ops[i] = Did("commit", FALSE)
    /\ wait_after.max_error_retry > 0


\* C13: the k-th limit_reached() since the last success()/skipped() (or since
\* construction) sleeps after_success * (k + 1) and never gives up; the k-th
\* error() that does not give up sleeps after_error * (k + 1).  So the first
\* wait of either kind after a reset is twice the base interval.
C13_LinearWaits ==
    /\ Len(limit_waits) = wait_after.consecutive_limits
    /\ \A k \in DOMAIN limit_waits : limit_waits[k] = AfterSuccessSecs * (k + 1)
    /\ Len(err_waits) = IF GaveUp THEN err_calls - 1 ELSE err_calls
    /\ \A k \in DOMAIN err_waits : err_waits[k] = AfterErrorSecs * (k + 1)
    /\ HasOp("limit_reached") =>
        /\ pc # "returned" /\ ret = NoRet
        /\ ops[Len(ops) - 1] = Did("limit_reached", TRUE)
        /\ Last(ops) = Slept(AfterSuccessSecs * (Len(limit_waits) + 1))
    /\ (HasOp("error") /\ ~GaveUp) =>
        /\ ops[Len(ops) - 1] = Did("error", TRUE)
        /\ Last(ops) = Slept(AfterErrorSecs * (Len(err_waits) + 1))

\* C13 witness: two rate-limit waits (14 s, 21 s) and one error wait (600 s)
\* since the last reset of the counters.
C13_Witness ==
    /\ limit_waits = <<2 * AfterSuccessSecs, 3 * AfterSuccessSecs>>
    /\ err_waits = <<2 * AfterErrorSecs>>
    /\ pc = "label"


\* the operations of cause_new_run in the order the claim gives them
Plan(pull) ==
    <<"reset_files">> \o (IF pull THEN <<"pull">> ELSE <<>>)
        \o <<"make_changes", "add_all", "commit">>
        \o (IF pull THEN <<"sleep">> ELSE <<>>) \o <<"push">>

\* how many of the operations of the iteration cause_new_run made: those
\* before the first operation of update_loop's match
RunLen ==
    LET after == {i \in DOMAIN ops : ops[i].op \in SchedulerOps \cup {"reset_commit"}}
    IN  IF after = {} THEN Len(ops)
        ELSE (CHOOSE i \in after : \A j \in after : i <= j) - 1

\* C14: the operations cause_new_run has made in the iteration are the first
\* ones of reset --hard, pull (only if prepend_pull), edit, add, commit,
\* 10-second sleep (only if prepend_pull), push, each once and in this order;
\* all but the last succeeded and changed something, the next one to run is
\* the next of the list, nothing of the list runs again after cause_new_run
\* returned, and the 10 seconds were slept exactly when prepend_pull is set
\* and the commit succeeded.
C14_FixedOrder ==
    LET plan == Plan(prepend_pull)
        n == RunLen
        step == IF pc = "till_push" THEN "sleep" ELSE pc
        slept == \E i \in 1..n : ops[i].op = "sleep"
    IN  /\ n <= Len(plan)
        /\ \A i \in 1..n : ops[i].op = plan[i]
        /\ \A i \in 1..n : ops[i].op = "sleep" => ops[i] = Slept(TILL_PUSH)
        /\ \A i \in 1..(n - 1) : ops[i].ok /\ ops[i].val
        /\ \A i \in DOMAIN ops :
            i > n => ops[i].op \notin {"reset_files", "pull", "make_changes",
                                       "add_all", "commit", "push"}
        /\ pc \in {"reset_files", "pull", "make_changes", "add_all", "commit",
                    "till_push", "push"} =>
            /\ n = Len(ops) /\ n < Len(plan) /\ plan[n + 1] = step
            /\ \A i \in 1..n : ops[i].ok /\ ops[i].val
        /\ (pc \in {"match", "label", "panicked", "returned"} /\ ops # <<>>) =>
            \/ n = Len(plan)
            \/ ~ops[n].ok
            \/ ops[n].op = "make_changes" /\ ~ops[n].val
        /\ pc # "till_push" =>
            (slept <=> prepend_pull /\ (\E i \in 1..n : ops[i] = Did("commit", TRUE)))

\* C14 witness: an iteration with prepend_pull set ran all seven operations.
C14_Witness ==
    /\ pc = "match"
    /\ res = Ok(TRUE)
    /\ prepend_pull
    /\ Len(ops) = 7
    /\ ops[6] = Slept(TILL_PUSH)


\* C15: an iteration whose push failed for another reason than the rate limit
\* calls limit_reached() once and no other method of the scheduler; the
\* rate-limit counter is one more than at the start of the iteration, the
\* error counter is what it was, the wait is the next of the linear curve,
\* and update_loop has not returned: the next iteration can start, however
\* many pushes failed before.
C15_PushFailureUsesLimitReached ==
    outcome = "push_failed" =>
        /\ Count("limit_reached") = 1
        /\ \A i \in DOMAIN ops : ops[i].op \in SchedulerOps => ops[i].op = "limit_reached"
        /\ wait_after.consecutive_errors = at_start.waiter.consecutive_errors
        /\ wait_after.consecutive_limits = at_start.waiter.consecutive_limits + 1
        /\ Last(ops) = Slept(AfterSuccessSecs * (at_start.waiter.consecutive_limits + 2))
        /\ pc \in {"label", "panicked"}
        /\ ret = NoRet
        /\ pc = "label" => ENABLED StartIteration

\* C15 witness: with no error retry allowed, the push failed in two
\* iterations running and the loop is ready for a third.
C15_Witness ==
    /\ wait_after.max_error_retry = 0
    /\ prev.outcome = "push_failed"
    /\ outcome = "push_failed"
    /\ limit_waits = <<2 * AfterSuccessSecs, 3 * AfterSuccessSecs>>
    /\ pc = "label"


\* the recovery reset of the iteration failed
RecoveryResetFailed == \E i \in DOMAIN ops : ops[i] = Did("reset_commit", FALSE)

ServerLaunchFailed ==
    /\ ServerStepFailed
    /\ ~last_git.output.launched

\* C17: a git command that could not be started gives the Exec failure, never
\* the rate-limit one, local or server.  When it was the pull, cause_new_run
\* returns NewRunError::Pull and update_loop calls error(), leaving the flag
\* and the rate-limit counter alone; when it was the push, cause_new_run
\* returns NewRunError::Push carrying the Exec failure and update_loop
\* attempts the recovery reset, sets the flag and calls limit_reached().
C17_LaunchFailureNeverRateLimited ==
    /\ []((last_git.kind # "none" /\ ~last_git.output.launched) =>
            last_git.result =
                IF last_git.kind = "server"
                THEN Err(GitInteractionError_Exec(GitCommandError_Exec))
                ELSE Err(GitCommandError_Exec))
    /\ [](ServerLaunchFailed =>
            res = IF Last(ops).op = "pull"
                  THEN Err(NewRunError_Pull(GitCommandError_Exec))
                  ELSE Err(NewRunError_Push(GitInteractionError_Exec(GitCommandError_Exec))))
    /\ [][ServerLaunchFailed =>
            LET n == Len(ops)
                w == wait_after
            IN  IF Last(ops).op = "pull"
                THEN /\ outcome' = "other"
                     /\ ops'[n + 1].op = "error"
                     /\ \A i \in DOMAIN ops' :
                            ops'[i].op \notin {"reset_commit", "limit_reached"}
                     /\ wait_after'.consecutive_errors = w.consecutive_errors + 1
                     /\ wait_after'.consecutive_limits = w.consecutive_limits
                     /\ maybe_diverged' = maybe_diverged
                ELSE /\ outcome' = "push_failed"
                     /\ ops'[n + 1].op = "reset_commit"
                     /\ ops'[n + 2] = Did("limit_reached", TRUE)
                     /\ \A i \in DOMAIN ops' : ops'[i].op # "error"
                     /\ wait_after'.consecutive_limits = w.consecutive_limits + 1
                     /\ wait_after'.consecutive_errors = w.consecutive_errors
                     /\ maybe_diverged'
                     /\ pc' = "label"]_vars

\* C17 witness: git could not be started for the push of an iteration that
\* began with the flag false.
C17_Witness ==
    /\ ServerLaunchFailed
    /\ Last(ops) = Did("push", FALSE)
    /\ ~maybe_diverged
    /\ wait_after.consecutive_limits < MaxLimits


\* the method of the scheduler the claim gives for an outcome
NotificationOf(o) ==
    IF o \in {"success", "skipped"} THEN o
    ELSE IF o \in {"limit", "push_failed", "push_limit"} THEN "limit_reached"
    ELSE "error"

Notifications == {i \in DOMAIN ops : ops[i].op \in SchedulerOps}

\* C18: while cause_new_run runs and after the fatal reset failure the
\* scheduler has not been called in the iteration.  An iteration that ended
\* otherwise called it exactly once, with the method its outcome selects,
\* after every git operation of the iteration, and unless error() gave up
\* the call waited a positive time; the loop is at its top, where the next
\* label is computed, only at the start or after that wait.
C18_OneNotificationPerIteration ==
    /\ outcome \in {"none", "running", "reset_failed"} => Notifications = {}
    /\ outcome \notin {"none", "running", "reset_failed"} =>
        /\ Cardinality(Notifications) = 1
        /\ LET i == CHOOSE k \in Notifications : TRUE
           IN  /\ ops[i].op = NotificationOf(outcome)
               /\ i > RunLen
               /\ \A j \in DOMAIN ops : j > i => ops[j].op = "sleep"
               /\ IF GaveUp
                  THEN i = Len(ops) /\ ~ops[i].ok
                  ELSE /\ i + 1 = Len(ops)
                       /\ ops[i].ok
                       /\ Last(ops).dur > 0
    /\ pc = "label" =>
        \/ outcome = "none" /\ ops = <<>>
        \/ /\ outcome \notin {"none", "running", "reset_failed"}
           /\ Last(ops).op = "sleep"
           /\ ops[Len(ops) - 1].op \in SchedulerOps
    /\ pc \in {"reset_files", "pull", "make_changes", "add_all", "commit",
                "till_push", "push", "match"} => outcome = "running"

\* C18 witness: an iteration that changed nothing notified skipped() and
\* waited 1800 s; the iteration before it had pushed.
C18_Witness ==
    /\ pc = "label"
    /\ outcome = "skipped"
    /\ prev.outcome = "success"
    /\ ops[Len(ops) - 1] = Did("skipped", TRUE)
    /\ Last(ops) = Slept(AfterSkippedSecs)


\* C19: the error counter is the number of error() calls since the last
\* success()/skipped(), whatever limit_reached() calls came between them,
\* and the rate-limit counter is the number of limit_reached() calls since
\* then: an iteration ending in limit_reached() leaves the error counter as
\* it was, one ending in error() leaves the rate-limit counter as it was.
\* update_loop has given up exactly when max_error_retry + 1 error() calls
\* were made since the last success()/skipped().
C19_IndependentCounters ==
    /\ wait_after.consecutive_errors = err_calls
    /\ wait_after.consecutive_limits = Len(limit_waits)
    /\ outcome \in {"limit", "push_failed", "push_limit"} =>
        /\ wait_after.consecutive_errors = at_start.waiter.consecutive_errors
        /\ wait_after.consecutive_limits = at_start.waiter.consecutive_limits + 1
    /\ outcome = "other" =>
        /\ wait_after.consecutive_limits = at_start.waiter.consecutive_limits
        /\ wait_after.consecutive_errors = at_start.waiter.consecutive_errors + 1
    /\ GaveUp <=> err_calls = wait_after.max_error_retry + 1
    /\ err_calls <= wait_after.max_error_retry + 1

\* C19 witness: with one retry allowed the loop gave up on the second
\* other-error iteration although a rate-limited or push-failed iteration
\* came between the two.
C19_Witness ==
    /\ GaveUp
    /\ wait_after.max_error_retry = 1
    /\ prev.outcome \in {"limit", "push_failed", "push_limit"}
    /\ wait_after.consecutive_limits >= 1


\* cause_new_run has committed and the commit is neither pushed nor undone
CommitPending ==
    \/ pc \in {"till_push", "push"}
    \/ pc = "match" /\ res.tag = "Err" /\ res.err.variant = "Push"

\* C20: as long as no recovery reset has failed, the local history has an
\* unpushed automatic commit only between the commit of an iteration and its
\* push or recovery reset, and that is the one commit of this iteration: at
\* the start of every iteration there is none.  An iteration whose recovery
\* reset failed ends with one unpushed commit more than it started with, and
\* the next iteration starts with these commits.
C20_NoUnpushedCommitCarried ==
    /\ [](~recovery_failed =>
            /\ at_start.unpushed = 0
            /\ unpushed = IF CommitPending THEN 1 ELSE 0)
    /\ [](at_start.unpushed > 0 => recovery_failed)
    /\ []((RecoveryResetFailed /\ pc \in {"label", "panicked"}) =>
            /\ recovery_failed
            /\ unpushed = at_start.unpushed + 1)
    /\ [][(pc = "label" /\ pc' = "reset_files") =>
            /\ unpushed' = unpushed
            /\ at_start'.unpushed = unpushed
            /\ RecoveryResetFailed => at_start'.unpushed >= 1]_vars

\* C20 witness: no recovery reset has failed so far, the push of the
\* iteration hit the rate limit, the recovery reset undid its commit and the
\* loop is at its top with no unpushed commit.
C20_Witness ==
    /\ pc = "label"
    /\ ~recovery_failed
    /\ outcome = "push_limit"
    /\ \E i \in DOMAIN ops : ops[i] = Did("commit", TRUE)
    /\ \E i \in DOMAIN ops : ops[i] = Did("reset_commit", TRUE)
    /\ unpushed = 0

====
